---- MODULE Spec2Model ----
(***************************************************************************)
(* CMIP5Provider (msc_pygeoapi/provider/cmip5_xarray.py): the provider's   *)
(* locator (self.data), its dataset handle (self._data), the axes list set *)
(* at construction, and the operations query() and                         *)
(* get_coverage_domainset().                                               *)
(*                                                                         *)
(* Strings that the code searches or rewrites (the locator, the facet      *)
(* tokens) are sequences of one-character strings, so that `in` and        *)
(* str.replace are computed on substrings as Python computes them.         *)
(***************************************************************************)
EXTENDS Integers, Sequences, FiniteSets

VARIABLES
    provider_def,  \* provider_def['data']: the locator the provider was built from
    data,          \* self.data: the current locator
    _data,         \* self._data: the current dataset handle, or None
    axes,          \* self.axes
    disk,          \* the stored grid of the dataset family: coordinate samples
    req,           \* the arguments of the last call
    result,        \* what the last call returned or raised
    pc,            \* concurrent queries: each query's position in query()
    treq,          \* concurrent queries: each query's arguments
    tsubsets,      \* concurrent queries: each query's subsets dict (keys get popped)
    topened,       \* concurrent queries: what the query's last open_data call returned
    tresult        \* concurrent queries: each query's outcome

vars == <<provider_def, data, _data, axes, disk, req, result,
          pc, treq, tsubsets, topened, tresult>>

-----------------------------------------------------------------------------
(* Bounds of the model *)

\* number of stored samples on the x axis and on the y axis (10, 20, ...)
NumSamples == 2

\* largest number of facet keys (scenario, percentile, season) in one request
MaxFacets == 2

-----------------------------------------------------------------------------
(* Python strings as character sequences *)

S_RCP == <<"R", "C", "P">>
S_season == <<"s", "e", "a", "s", "o", "n">>
S_avg_20years == <<"a", "v", "g", "_", "2", "0", "y", "e", "a", "r", "s">>
S_26 == <<"2", ".", "6">>
S_45 == <<"4", ".", "5">>
S_85 == <<"8", ".", "5">>
S_pctl == <<"p", "c", "t", "l">>
S_pctl50 == <<"p", "c", "t", "l", "5", "0">>
S_pctl25 == <<"p", "c", "t", "l", "2", "5">>
S_pctl75 == <<"p", "c", "t", "l", "7", "5">>
S_DJF == <<"D", "J", "F">>
S_MAM == <<"M", "A", "M">>
S_ANN == <<"A", "N", "N">>
S_RCP26 == <<"R", "C", "P", "2", ".", "6">>
S_RCP45 == <<"R", "C", "P", "4", ".", "5">>
S_RCP85 == <<"R", "C", "P", "8", ".", "5">>
S_hist == <<"h", "i", "s", "t">>

\* the locators a provider is configured with
L_seasonal == <<"R", "C", "P", "2", ".", "6", "_", "s", "e", "a", "s", "o", "n", "_",
                "D", "J", "F", "_", "p", "c", "t", "l", "5", "0">>
L_avg == <<"R", "C", "P", "2", ".", "6", "_", "a", "v", "g", "_", "2", "0", "y", "e",
           "a", "r", "s">>
L_hist == <<"h", "i", "s", "t", "_", "p", "c", "t", "l", "5", "0">>

Locators == {L_seasonal, L_avg, L_hist}

\* s[i:i+len(sub)] == sub
MatchAt(s, sub, i) ==
    /\ i + Len(sub) - 1 <= Len(s)
    /\ \A k \in 1..Len(sub) : s[i + k - 1] = sub[k]

\* sub in s
Contains(s, sub) == \E i \in 1..(Len(s) - Len(sub) + 1) : MatchAt(s, sub, i)

\* s.find(old, i): the first occurrence of old in s at or after i, 0 for none
FirstMatch(s, old, i) ==
    LET found == {j \in i..(Len(s) - Len(old) + 1) : MatchAt(s, old, j)}
    IN  IF found = {} THEN 0 ELSE CHOOSE j \in found : \A k \in found : j <= k

\* s.replace(old, new): every non-overlapping occurrence, left to right; j is
\* the next occurrence at or after i
RECURSIVE ReplaceAt(_, _, _, _, _)
ReplaceAt(s, old, new, i, j) ==
    IF j = 0 THEN SubSeq(s, i, Len(s))
    ELSE SubSeq(s, i, j - 1) \o new
         \o ReplaceAt(s, old, new, j + Len(old), FirstMatch(s, old, j + Len(old)))

Replace(s, old, new) == ReplaceAt(s, old, new, 1, FirstMatch(s, old, 1))

Digit(d) ==
    CASE d = 0 -> "0" [] d = 1 -> "1" [] d = 2 -> "2" [] d = 3 -> "3" [] d = 4 -> "4"
      [] d = 5 -> "5" [] d = 6 -> "6" [] d = 7 -> "7" [] d = 8 -> "8" [] d = 9 -> "9"

\* str(n) for a non-negative int
RECURSIVE Str(_)
Str(n) == IF n < 10 THEN <<Digit(n)>> ELSE Str(n \div 10) \o <<Digit(n % 10)>>

-----------------------------------------------------------------------------
(* The dataset family on disk and open_data *)

None == [isNone |-> TRUE]

x_field == "lon"
y_field == "lat"
time_field == "time"

\* the locators xarray.open_mfdataset finds no file for
FileExists(loc) == ~Contains(loc, S_ANN)

\* the dataset xarray.open_mfdataset returns for an existing locator
Dataset(loc) ==
    [isNone |-> FALSE, src |-> loc, coords |-> disk, variables |-> {"tas"}]

\* open_data logs a failure of open_mfdataset and returns None
open_data(loc) == IF FileExists(loc) THEN Dataset(loc) ELSE None

-----------------------------------------------------------------------------
(* query(): the facet blocks, lines 264-315 *)

\* `del d[k]` / d.pop(k)
Pop(d, k) == [x \in (DOMAIN d) \ {k} |-> d[x]]

\* scenario[0].replace('RCP', ''), then self.data.replace('2.6', scenario_value)
scenario_locator(loc, scenario) ==
    Replace(loc, S_26, Replace(scenario[1], S_RCP, <<>>))

\* self.data.replace('pctl50', 'pctl{}'.format(str(percentile[0])))
percentile_locator(loc, percentile) ==
    Replace(loc, S_pctl50, S_pctl \o Str(percentile[1]))

\* self.data.replace('DJF', str(seasonal[0]))
season_locator(loc, seasonal) == Replace(loc, S_DJF, seasonal[1])

\* the scenario block raises: more than one value, or scenario[0] of an empty list
\* (the IndexError is caught at line 275 and re-raised as ProviderQueryError)
scenario_raises(scenario) == Len(scenario) > 1 \/ Len(scenario) = 0

\* a scenario block that would re-open for 'hist' as well: what the value
\* list at line 269 rules out
scenario_reopens_hist(scenario) ==
    Len(scenario) = 1 /\ scenario[1] \notin {S_RCP26}

\* the scenario block re-opens the dataset
scenario_reopens(scenario) ==
    Len(scenario) = 1 /\ scenario[1] \notin {S_RCP26, S_hist}

\* the percentile block raises: only percentile[0] of an empty list can
percentile_raises(percentile) == percentile # <<50>> /\ Len(percentile) = 0

\* the percentile block re-opens the dataset: no check of the length
percentile_reopens(percentile) == percentile # <<50>> /\ Len(percentile) >= 1

\* the season block raises
season_raises(seasonal) == Len(seasonal) > 1 \/ Len(seasonal) = 0

\* the season block re-opens the dataset
season_reopens(seasonal) == Len(seasonal) = 1 /\ seasonal # <<S_DJF>>

\* The facet blocks work on the provider's fields and the subsets dict:
\* st = [data, _data, subsets, exc, opens]; exc is "" while nothing was raised,
\* opens counts the calls of open_data.
Reopen(st, loc, key) ==
    [st EXCEPT !.data = loc, !._data = open_data(loc),
               !.subsets = Pop(st.subsets, key), !.opens = st.opens + 1]

scenario_block(st) ==
    IF "scenario" \notin DOMAIN st.subsets THEN st
    ELSE LET scenario == st.subsets["scenario"] IN
         IF scenario_raises(scenario) THEN [st EXCEPT !.exc = "ProviderQueryError"]
         ELSE IF scenario_reopens(scenario)
              THEN Reopen(st, scenario_locator(st.data, scenario), "scenario")
         ELSE [st EXCEPT !.subsets = Pop(st.subsets, "scenario")]

percentile_block(st) ==
    IF st.exc # "" \/ "percentile" \notin DOMAIN st.subsets THEN st
    ELSE LET percentile == st.subsets["percentile"] IN
         IF percentile_raises(percentile) THEN [st EXCEPT !.exc = "ProviderQueryError"]
         ELSE IF percentile_reopens(percentile)
              THEN Reopen(st, percentile_locator(st.data, percentile), "percentile")
         ELSE [st EXCEPT !.subsets = Pop(st.subsets, "percentile")]

season_block(st) ==
    IF st.exc # "" \/ "season" \notin DOMAIN st.subsets THEN st
    ELSE LET seasonal == st.subsets["season"] IN
         IF season_raises(seasonal) THEN [st EXCEPT !.exc = "ProviderQueryError"]
         ELSE IF season_reopens(seasonal)
              THEN Reopen(st, season_locator(st.data, seasonal), "season")
         ELSE [st EXCEPT !.subsets = Pop(st.subsets, "season")]

\* the fields the facet blocks start from
facet_state(loc, handle, subsets) ==
    [data |-> loc, _data |-> handle, subsets |-> subsets, exc |-> "", opens |-> 0]

-----------------------------------------------------------------------------
(* query(): variable selection, subsetting and output, lines 317-434 *)

Last(seq) == seq[Len(seq)]

\* a dataset without coordinates; a dict without keys
NoCoords == [key \in {} |-> <<>>]
EmptyDict == [key \in {} |-> <<>>]

\* index[slice(start, stop)] by label on a monotonic index, as pandas computes
\* it: the left bound of start to the right bound of stop, found by bisection
\* in the index's own direction.  An index of one sample counts as increasing.
slice_by_label(index, start, stop) ==
    LET increasing == index[1] <= Last(index)
        lo == IF increasing
              THEN Cardinality({i \in 1..Len(index) : index[i] < start})
              ELSE Cardinality({i \in 1..Len(index) : index[i] > start})
        hi == IF increasing
              THEN Cardinality({i \in 1..Len(index) : index[i] <= stop})
              ELSE Cardinality({i \in 1..Len(index) : index[i] >= stop})
    IN  SubSeq(index, lo + 1, hi)

\* lines 336-340: a named subset's slice, its ends swapped for a coordinate
\* stored in descending order
named_slice(coords, key, val) ==
    IF coords[key][1] > Last(coords[key])
    THEN [start |-> val[2], stop |-> val[1], point |-> FALSE]
    ELSE [start |-> val[1], stop |-> val[2], point |-> FALSE]

\* lines 350-353: the slices a bbox sets
bbox_x_slice(bbox) == [start |-> bbox[1], stop |-> bbox[3], point |-> FALSE]
bbox_y_slice(bbox) == [start |-> bbox[4], stop |-> bbox[2], point |-> FALSE]

\* lines 342-348: bbox together with named subsets is rejected
bbox_conflict(subsets, bbox) ==
    /\ x_field \in DOMAIN subsets
    /\ y_field \in DOMAIN subsets
    /\ Len(bbox) > 0

\* lines 361-371: datetime_ is <<year>> for 'YYYY' and <<begin, end>> for
\* 'YYYY/YYYY'; four-digit years compare as strings the way they do as numbers
datetime_slice(datetime_) ==
    IF Len(datetime_) = 2
    THEN IF datetime_[1] < datetime_[2]
         THEN [start |-> datetime_[1], stop |-> datetime_[2], point |-> FALSE]
         ELSE [start |-> datetime_[2], stop |-> datetime_[1], point |-> FALSE]
    ELSE [start |-> datetime_[1], stop |-> datetime_[1], point |-> TRUE]

\* lines 334-371: query_params once the exclusivity checks have passed
query_params(coords, subsets, bbox, datetime_) ==
    LET keys == (DOMAIN subsets)
                \cup (IF bbox # <<>> THEN {x_field, y_field} ELSE {})
                \cup (IF datetime_ # <<>> THEN {time_field} ELSE {})
    IN  [key \in keys |->
            IF bbox # <<>> /\ key = x_field THEN bbox_x_slice(bbox)
            ELSE IF bbox # <<>> /\ key = y_field THEN bbox_y_slice(bbox)
            ELSE IF datetime_ # <<>> /\ key = time_field THEN datetime_slice(datetime_)
            ELSE named_slice(coords, key, subsets[key])]

\* data.loc[query_params] raises: a key that is no dimension of data, or a
\* point label the index does not hold
loc_raises(coords, params) ==
    \E key \in DOMAIN params :
        \/ key \notin DOMAIN coords
        \/ /\ params[key].point
           /\ \A i \in 1..Len(coords[key]) : coords[key][i] # params[key].start

\* data.loc[query_params]: every dimension sliced by label
loc_select(coords, params) ==
    [key \in DOMAIN coords |->
        IF key \in DOMAIN params
        THEN slice_by_label(coords[key], params[key].start, params[key].stop)
        ELSE coords[key]]

\* self._data[[*range_subset]] keeps the coordinates of the dimensions the
\* selected variables have: all three for 'tas', none for an empty list
select_variables(handle, range_subset) ==
    IF Len(range_subset) = 0 THEN NoCoords ELSE handle.coords

\* the record of a call that raised exc: src is the locator of the handle the
\* data came from, selected whether data.loc was applied, coords what it left
Raised(exc, src, selected, coords) ==
    [outcome |-> "raise", exc |-> exc, bbox |-> <<>>, selected |-> selected,
     coords |-> coords, src |-> src, opens |-> 0, axisLabels |-> <<>>]

\* the record of a call that returned
Returned(how, bbox, selected, coords, src) ==
    [outcome |-> how, exc |-> "", bbox |-> bbox, selected |-> selected,
     coords |-> coords, src |-> src, opens |-> 0, axisLabels |-> <<>>]

\* an emptiness check that would look at the x axis only
no_data_x_only(coords) == Len(coords[x_field]) = 0

\* lines 380-384: the emptiness check
no_data(coords) == Len(coords[x_field]) = 0 \/ Len(coords[y_field]) = 0

\* lines 387-392: out_meta['bbox']
out_meta_bbox(coords) ==
    <<coords[x_field][1], coords[y_field][1],
      Last(coords[x_field]), Last(coords[y_field])>>

\* lines 380-434 on the (possibly subsetted) data; values[0] of an empty
\* coordinate raises IndexError
emit(coords, selected, src, format_) ==
    IF x_field \notin DOMAIN coords THEN Raised("KeyError", src, selected, coords)
    ELSE IF no_data(coords) THEN Raised("ProviderNoDataError", src, selected, coords)
    ELSE IF \E key \in {x_field, y_field, time_field} : Len(coords[key]) = 0
    THEN Raised("IndexError", src, selected, coords)
    ELSE Returned(IF format_ = "json" THEN "covjson"
                  ELSE IF format_ = "zarr" THEN "zarr" ELSE "netcdf",
                  out_meta_bbox(coords), selected, coords, src)

\* lines 326-378: the spatio-temporal subset
subset(coords, subsets, r, src) ==
    IF ~(\/ x_field \in DOMAIN subsets
         \/ y_field \in DOMAIN subsets
         \/ time_field \in DOMAIN subsets
         \/ r.bbox # <<>>
         \/ r.datetime_ # <<>>)
    THEN emit(coords, FALSE, src, r.format_)
    ELSE IF \E key \in DOMAIN subsets : key \notin DOMAIN coords
    THEN Raised("KeyError", src, FALSE, coords)
    ELSE IF r.bbox # <<>> /\ bbox_conflict(subsets, r.bbox)
    THEN Raised("ProviderQueryError", src, FALSE, coords)
    ELSE IF r.datetime_ # <<>> /\ time_field \in DOMAIN subsets
    THEN Raised("ProviderQueryError", src, FALSE, coords)
    ELSE IF loc_raises(coords, query_params(coords, subsets, r.bbox, r.datetime_))
    THEN Raised("ProviderQueryError", src, FALSE, coords)
    ELSE emit(loc_select(coords, query_params(coords, subsets, r.bbox, r.datetime_)),
              TRUE, src, r.format_)

\* lines 317-434, after the facet blocks: loc and handle are self.data and
\* self._data, subsets is the dict the facet keys were popped from
serve(loc, handle, subsets, r) ==
    IF Len(r.range_subset) = 0 /\ DOMAIN subsets = {} /\ r.format_ # "json"
    THEN IF r.format_ = "zarr"
         THEN IF handle = None THEN Raised("AttributeError", <<>>, FALSE, NoCoords)
              ELSE Returned("native", <<>>, FALSE, handle.coords, handle.src)
         ELSE IF FileExists(loc) THEN Returned("native", <<>>, FALSE, NoCoords, loc)
              ELSE Raised("FileNotFoundError", <<>>, FALSE, NoCoords)
    ELSE IF handle = None THEN Raised("TypeError", <<>>, FALSE, NoCoords)
    ELSE IF \E i \in 1..Len(r.range_subset) : r.range_subset[i] \notin handle.variables
    THEN Raised("KeyError", handle.src, FALSE, NoCoords)
    ELSE subset(select_variables(handle, r.range_subset), subsets, r, handle.src)

\* what query() returns or raises once the facet blocks have run
outcome(st, r) ==
    [(IF st.exc # "" THEN Raised(st.exc, <<>>, FALSE, NoCoords)
      ELSE serve(st.data, st._data, st.subsets, r)) EXCEPT !.opens = st.opens]

-----------------------------------------------------------------------------
(* The stored grid and the arguments of the calls *)

\* x and y samples 10, 20, ... in ascending and in descending storage order
Ascending == [i \in 1..NumSamples |-> 10 * i]
Descending == [i \in 1..NumSamples |-> 10 * (NumSamples + 1 - i)]

\* the grids of the dataset families: y is stored north to south, x in either
\* direction; two yearly time steps
Grids ==
    {[lon |-> xs, lat |-> Descending, time |-> <<2006, 2007>>] :
        xs \in {Ascending, Descending}}

\* bounds a caller asks for: the samples and one value beyond them
Outside == 10 * (NumSamples + 1)
Bounds == {10 * k : k \in 1..(NumSamples + 1)}
Ranges == {range \in Bounds \X Bounds : range[1] <= range[2]}
Full == <<10, 10 * NumSamples>>
YRanges == {Full, <<Outside, Outside>>}
Boxes == {<<xr[1], yr[1], xr[2], yr[2]>> : xr \in Ranges, yr \in YRanges}
FullBox == <<Full[1], Full[1], Full[2], Full[2]>>

\* <<>> stands for a key the caller leaves out
ScenarioOpts == {<<S_RCP26>>, <<S_hist>>, <<S_RCP85>>, <<S_RCP45, S_RCP85>>}
PercentileOpts == {<<50>>, <<25>>, <<75>>, <<25, 75>>}
SeasonOpts == {<<S_DJF>>, <<S_MAM>>, <<S_ANN>>, <<S_DJF, S_MAM>>}
TimeOpts == {<<2006, 2007>>, <<1900, 1901>>}
DatetimeOpts == {<<2006>>, <<1900>>, <<2007, 2006>>, <<1900, 1901>>}

\* the subsets dict with the keys given (a <<>> argument leaves the key out)
Subsets(scenario, percentile, season, x, y, t, z) ==
    LET given == [scenario |-> scenario, percentile |-> percentile, season |-> season,
                  lon |-> x, lat |-> y, time |-> t, z |-> z]
    IN  [key \in {k \in DOMAIN given : given[k] # <<>>} |-> given[key]]

Request(range_subset, subsets, bbox, datetime_, format_) ==
    [range_subset |-> range_subset, subsets |-> subsets, bbox |-> bbox,
     datetime_ |-> datetime_, format_ |-> format_]

\* query() called with its defaults (subsets is then empty)
NoArgs == Request(<<"tas">>, EmptyDict, <<>>, <<>>, "json")

FacetKeys == {"scenario", "percentile", "season"}

FacetDicts ==
    {d \in {Subsets(sc, pct, se, <<>>, <<>>, <<>>, <<>>) :
                sc \in ScenarioOpts \cup {<<>>},
                pct \in PercentileOpts \cup {<<>>},
                se \in SeasonOpts \cup {<<>>}} :
        Cardinality(DOMAIN d) <= MaxFacets}

\* facet selections, everything else as the defaults of query()
FacetRequests == {Request(<<"tas">>, d, <<>>, <<>>, "json") : d \in FacetDicts}

\* named x/y subsets, a bbox, or a bbox together with named subsets (with and
\* without a scenario to re-open for)
SpatialRequests ==
    {Request(<<"tas">>, Subsets(<<>>, <<>>, <<>>, x, y, <<>>, <<>>), <<>>, <<>>, "json") :
        x \in Ranges \cup {<<>>}, y \in YRanges \cup {<<>>}}
    \cup {Request(<<"tas">>, EmptyDict, bbox, <<>>, "json") : bbox \in Boxes}
    \cup {Request(<<"tas">>, Subsets(sc, <<>>, <<>>, x, y, <<>>, <<>>),
                  FullBox, <<>>, "json") :
            x \in {Full, <<>>}, y \in {Full, <<>>}, sc \in {<<S_RCP85>>, <<>>}}

\* a named time subset, a datetime, a key that is no coordinate
TemporalRequests ==
    {Request(<<"tas">>, Subsets(<<>>, <<>>, <<>>, <<>>, <<>>, t, <<>>), <<>>, dt, "json") :
        t \in TimeOpts \cup {<<>>}, dt \in DatetimeOpts \cup {<<>>}}
    \cup {Request(<<"tas">>, Subsets(<<>>, <<>>, <<>>, <<>>, <<>>, <<>>, <<1, 2>>),
                  bbox, <<>>, "json") : bbox \in {<<>>, FullBox}}

\* the variables asked for and the output format, on a dataset that opens and
\* on one that does not
OutputRequests ==
    {Request(rs, Subsets(<<>>, <<>>, se, <<>>, <<>>, <<>>, <<>>), <<>>, <<>>, f) :
        rs \in {<<"tas">>, <<"pr">>}, se \in {<<S_ANN>>, <<>>},
        f \in {"json", "zarr", "netcdf"}}
    \cup {Request(<<>>, Subsets(<<>>, <<>>, se, <<>>, <<>>, <<>>, <<>>), <<>>, <<>>, f) :
            se \in {<<S_ANN>>, <<>>}, f \in {"zarr", "netcdf"}}

Requests == FacetRequests \cup SpatialRequests \cup TemporalRequests \cup OutputRequests

-----------------------------------------------------------------------------
(* The provider *)

NoResult ==
    [outcome |-> "none", exc |-> "", bbox |-> <<>>, selected |-> FALSE,
     coords |-> NoCoords, src |-> <<>>, opens |-> 0, axisLabels |-> <<>>]

Queries == {1, 2}

\* __init__, lines 59-76: coverage properties give the x, y and time labels,
\* the locator decides the facet axes
init_axes(loc) ==
    <<x_field, y_field, time_field>>
    \o (IF Contains(loc, S_RCP) THEN <<"scenario">> ELSE <<>>)
    \o (IF Contains(loc, S_season) THEN <<"season">> ELSE <<>>)
    \o (IF ~Contains(loc, S_avg_20years) THEN <<"percentile">> ELSE <<>>)

\* get_coverage_domainset, lines 97-127: the axis labels of the base domainset
\* extended by new_axis_name
domainset_axisLabels(loc) ==
    <<x_field, y_field, time_field>>
    \o (IF ~Contains(loc, S_avg_20years) THEN <<"percentile">> ELSE <<>>)
    \o (IF Contains(loc, S_RCP) THEN <<"scenario">> ELSE <<>>)
    \o (IF Contains(loc, S_season) THEN <<"season">> ELSE <<>>)

\* the state after a successful construction
Init ==
    /\ provider_def \in Locators
    /\ disk \in Grids
    /\ data = provider_def
    /\ _data = open_data(provider_def)
    /\ axes = init_axes(provider_def)
    /\ req = NoArgs
    /\ result = NoResult
    /\ pc = [q \in Queries |-> "idle"]
    /\ treq = [q \in Queries |-> NoArgs]
    /\ tsubsets = [q \in Queries |-> EmptyDict]
    /\ topened = [q \in Queries |-> None]
    /\ tresult = [q \in Queries |-> NoResult]

\* one call of query(), start to end: the three facet blocks in turn, then
\* the selection and the output
query ==
    \E r \in Requests :
    \E s1 \in {scenario_block(facet_state(data, _data, r.subsets))} :
    \E s2 \in {percentile_block(s1)} :
    \E s3 \in {season_block(s2)} :
        /\ req' = r
        /\ data' = s3.data
        /\ _data' = s3._data
        /\ result' = outcome(s3, r)
        /\ UNCHANGED <<provider_def, axes, disk, pc, treq, tsubsets, topened, tresult>>

\* one call of get_coverage_domainset(): it takes no arguments and changes
\* nothing of the provider
get_coverage_domainset ==
    /\ req' = NoArgs
    /\ result' = [NoResult EXCEPT !.outcome = "domainset",
                                  !.axisLabels = domainset_axisLabels(data)]
    /\ UNCHANGED <<provider_def, data, _data, axes, disk,
                   pc, treq, tsubsets, topened, tresult>>

Next == query \/ get_coverage_domainset

Spec == Init /\ [][Next]_vars

-----------------------------------------------------------------------------
(* Two query() calls running at the same time on one provider.  Each call  *)
(* takes the statements of query() one at a time; between two statements   *)
(* the other call may run.  The provider holds no lock.                    *)

\* what the concurrent calls ask for: at most one facet, the rest by default
ConcurrentRequests == {r \in FacetRequests : Cardinality(DOMAIN r.subsets) <= 1}

\* a facet block's position, its re-open's position and the position after it
After(block) ==
    CASE block = "scenario" -> "percentile"
      [] block = "percentile" -> "season"
      [] block = "season" -> "serve"

block_raises(block, val) ==
    CASE block = "scenario" -> scenario_raises(val)
      [] block = "percentile" -> percentile_raises(val)
      [] block = "season" -> season_raises(val)

block_reopens(block, val) ==
    CASE block = "scenario" -> scenario_reopens(val)
      [] block = "percentile" -> percentile_reopens(val)
      [] block = "season" -> season_reopens(val)

block_locator(block, loc, val) ==
    CASE block = "scenario" -> scenario_locator(loc, val)
      [] block = "percentile" -> percentile_locator(loc, val)
      [] block = "season" -> season_locator(loc, val)

\* query() is entered with its arguments
enter(q) ==
    /\ pc[q] = "idle"
    /\ \E r \in ConcurrentRequests :
        /\ treq' = [treq EXCEPT ![q] = r]
        /\ tsubsets' = [tsubsets EXCEPT ![q] = r.subsets]
    /\ pc' = [pc EXCEPT ![q] = "scenario"]
    /\ UNCHANGED <<provider_def, data, _data, axes, disk, req, result, topened, tresult>>

\* a facet block up to and with the assignment of self.data (lines 264-273,
\* 281-288, 297-308): the key is absent, the value is rejected, the locator
\* is rewritten, or the value is the default and the key is popped
facet_check(q, block) ==
    /\ pc[q] = block
    /\ IF block \notin DOMAIN tsubsets[q]
       THEN /\ pc' = [pc EXCEPT ![q] = After(block)]
            /\ UNCHANGED <<data, tsubsets, tresult>>
       ELSE IF block_raises(block, tsubsets[q][block])
       THEN /\ pc' = [pc EXCEPT ![q] = "done"]
            /\ tresult' = [tresult EXCEPT
                             ![q] = Raised("ProviderQueryError", <<>>, FALSE, NoCoords)]
            /\ UNCHANGED <<data, tsubsets>>
       ELSE IF block_reopens(block, tsubsets[q][block])
       THEN /\ data' = block_locator(block, data, tsubsets[q][block])
            /\ pc' = [pc EXCEPT ![q] = "open"]
            /\ UNCHANGED <<tsubsets, tresult>>
       ELSE /\ tsubsets' = [tsubsets EXCEPT ![q] = Pop(tsubsets[q], block)]
            /\ pc' = [pc EXCEPT ![q] = After(block)]
            /\ UNCHANGED <<data, tresult>>
    /\ UNCHANGED <<provider_def, _data, axes, disk, req, result, treq, topened>>

scenario_check(q) == facet_check(q, "scenario")
percentile_check(q) == facet_check(q, "percentile")
season_check(q) == facet_check(q, "season")

\* the facet key whose block a call is in: the first facet key left in its dict
current_block(q) ==
    IF "scenario" \in DOMAIN tsubsets[q] THEN "scenario"
    ELSE IF "percentile" \in DOMAIN tsubsets[q] THEN "percentile" ELSE "season"

\* self._data = open_data(self.data) (lines 274, 289, 309) and the pop of the
\* key: the locator opened is the one self.data holds now
reopen(q) ==
    /\ pc[q] = "open"
    /\ _data' = open_data(data)
    /\ topened' = [topened EXCEPT ![q] = open_data(data)]
    /\ tsubsets' = [tsubsets EXCEPT ![q] = Pop(tsubsets[q], current_block(q))]
    /\ pc' = [pc EXCEPT ![q] = After(current_block(q))]
    /\ UNCHANGED <<provider_def, data, axes, disk, req, result, treq, tresult>>

\* a selection that would wait while another call is between its assignment
\* of self.data and its assignment of self._data: what a lock around lines
\* 270-271 would give
select_and_return_locked(q) ==
    /\ \A o \in Queries \ {q} : pc[o] # "open"
    /\ pc[q] = "serve"
    /\ tresult' = [tresult EXCEPT ![q] = serve(data, _data, tsubsets[q], treq[q])]
    /\ pc' = [pc EXCEPT ![q] = "done"]
    /\ UNCHANGED <<provider_def, data, _data, axes, disk, req, result,
                   treq, tsubsets, topened>>

\* lines 317-434: the call reads self._data once and works on what it read
select_and_return(q) ==
    /\ pc[q] = "serve"
    /\ tresult' = [tresult EXCEPT ![q] = serve(data, _data, tsubsets[q], treq[q])]
    /\ pc' = [pc EXCEPT ![q] = "done"]
    /\ UNCHANGED <<provider_def, data, _data, axes, disk, req, result,
                   treq, tsubsets, topened>>

\* the next statement of call q
step(q) ==
    \/ scenario_check(q)
    \/ percentile_check(q)
    \/ season_check(q)
    \/ reopen(q)
    \/ select_and_return(q)

NextConcurrent == \E q \in Queries : enter(q) \/ step(q)

SpecConcurrent == Init /\ [][NextConcurrent]_vars

-----------------------------------------------------------------------------
(* Properties *)

\* the last call was a query()
IsQuery(res) == res.outcome \notin {"none", "domainset"}

\* the provider is as __init__ left it
Fresh == data = provider_def /\ _data = Dataset(provider_def)

\* the locator carries the three default facet tokens
DefaultEncoded(loc) ==
    Contains(loc, S_26) /\ Contains(loc, S_pctl50) /\ Contains(loc, S_DJF)

Selects(subsets, key, val) == key \in DOMAIN subsets /\ subsets[key] = <<val>>

SingleValued(subsets) ==
    \A key \in (DOMAIN subsets) \cap FacetKeys : Len(subsets[key]) = 1

MultiValued(subsets) ==
    \E key \in (DOMAIN subsets) \cap FacetKeys : Len(subsets[key]) > 1

\* a single-valued selection asks for a value other than the default
NonDefault(subsets) ==
    \/ "scenario" \in DOMAIN subsets /\ subsets["scenario"][1] \notin {S_RCP26, S_hist}
    \/ "percentile" \in DOMAIN subsets /\ subsets["percentile"] # <<50>>
    \/ "season" \in DOMAIN subsets /\ subsets["season"] # <<S_DJF>>

\* loc has token new where the default locator has token old
InPlaceOf(loc, new, old) == Contains(loc, new) /\ ~Contains(loc, old)

\* C1: on a provider as constructed, with the default tokens in its locator,
\* a query with single-valued facets opens a dataset iff some selected value
\* is not the default; default selections leave locator and handle alone;
\* 'RCP8.5' puts '8.5' in place of '2.6', [25] and [75] put 'pctl25' and
\* 'pctl75' in place of 'pctl50', a season other than DJF puts its token in
\* place of 'DJF'; and the handle is then the one opened from the new locator.
C1_FacetReopen ==
    [][(Fresh /\ DefaultEncoded(data) /\ IsQuery(result')
        /\ SingleValued(req'.subsets))
       => /\ (result'.opens > 0) <=> NonDefault(req'.subsets)
          /\ ~NonDefault(req'.subsets) => (data' = data /\ _data' = _data)
          /\ NonDefault(req'.subsets) => _data' = open_data(data')
          /\ IF Selects(req'.subsets, "scenario", S_RCP85)
             THEN InPlaceOf(data', S_85, S_26) ELSE Contains(data', S_26)
          /\ IF Selects(req'.subsets, "percentile", 25)
             THEN InPlaceOf(data', S_pctl25, S_pctl50)
             ELSE IF Selects(req'.subsets, "percentile", 75)
             THEN InPlaceOf(data', S_pctl75, S_pctl50)
             ELSE Contains(data', S_pctl50)
          /\ IF Selects(req'.subsets, "season", S_MAM)
             THEN InPlaceOf(data', S_MAM, S_DJF)
             ELSE IF Selects(req'.subsets, "season", S_ANN)
             THEN InPlaceOf(data', S_ANN, S_DJF)
             ELSE Contains(data', S_DJF)
          /\ Len(data') = Len(data)]_vars

\* C1 witness: scenario 'RCP8.5' alone was selected, the dataset was opened
\* once, and the locator has '8.5' with the other default tokens untouched
C1_Witness ==
    /\ IsQuery(result)
    /\ req.subsets = Subsets(<<S_RCP85>>, <<>>, <<>>, <<>>, <<>>, <<>>, <<>>)
    /\ result.opens = 1
    /\ InPlaceOf(data, S_85, S_26) /\ Contains(data, S_pctl50) /\ Contains(data, S_DJF)
    /\ _data = Dataset(data)

\* C2 as claimed: a query with a multi-valued scenario, percentile or season
\* raises ProviderQueryError and leaves locator and handle as they were
C2_MultiValuedRejected ==
    [][(IsQuery(result') /\ MultiValued(req'.subsets))
       => /\ result'.exc = "ProviderQueryError"
          /\ data' = data
          /\ _data' = _data]_vars

\* C3 as claimed: a query with a bbox and a named x or y subset raises
\* ProviderQueryError and applies no selection
C3_BboxExcludesNamed ==
    (/\ IsQuery(result)
     /\ req.bbox # <<>>
     /\ (x_field \in DOMAIN req.subsets \/ y_field \in DOMAIN req.subsets))
    => (result.exc = "ProviderQueryError" /\ ~result.selected)

\* C4 as claimed: on a grid with x stored descending, a bbox over the whole y
\* range whose x range holds stored samples returns exactly those samples in
\* storage order, and the metadata bbox has the smallest and the largest of
\* them as minX and maxX
C4_DescendingBbox ==
    LET inside == {i \in 1..Len(disk.lon) :
                      req.bbox[1] <= disk.lon[i] /\ disk.lon[i] <= req.bbox[3]}
        first == CHOOSE i \in inside : \A j \in inside : i <= j
        last == CHOOSE i \in inside : \A j \in inside : j <= i
    IN  (/\ IsQuery(result)
         /\ disk.lon[1] > Last(disk.lon)
         /\ result.src # <<>>
         /\ req.bbox # <<>>
         /\ req = Request(<<"tas">>, EmptyDict,
                          <<req.bbox[1], Full[1], req.bbox[3], Full[2]>>, <<>>, "json")
         /\ inside # {})
        => /\ result.outcome = "covjson"
           /\ result.coords[x_field] = SubSeq(disk.lon, first, last)
           /\ result.bbox[1] = disk.lon[last]
           /\ result.bbox[3] = disk.lon[first]

\* C5 as claimed: a query that raises raises ProviderQueryError or
\* ProviderNoDataError
C5_OnlyProviderErrors ==
    result.outcome = "raise"
    => result.exc \in {"ProviderQueryError", "ProviderNoDataError"}

\* C6: when the selection was applied and left no x sample or no y sample,
\* the query raises ProviderNoDataError and returns no metadata
C6_EmptyIsNoData ==
    (/\ IsQuery(result)
     /\ result.selected
     /\ (Len(result.coords[x_field]) = 0 \/ Len(result.coords[y_field]) = 0))
    => /\ result.outcome = "raise"
       /\ result.exc = "ProviderNoDataError"
       /\ result.bbox = <<>>

\* C6 witness: a selection that kept x samples and no y sample ended in
\* ProviderNoDataError
C6_Witness ==
    /\ IsQuery(result)
    /\ result.selected
    /\ Len(result.coords[x_field]) > 0
    /\ Len(result.coords[y_field]) = 0
    /\ result.exc = "ProviderNoDataError"

\* C8 as claimed: a query with single-valued facets takes its data from a
\* locator that carries the token of every value it selects
C8_DataFollowsSelection ==
    (/\ IsQuery(result)
     /\ provider_def = L_seasonal
     /\ result.src # <<>>
     /\ SingleValued(req.subsets))
    => /\ \A v \in {S_RCP26, S_RCP45, S_RCP85} :
              Selects(req.subsets, "scenario", v)
              => Contains(result.src, Replace(v, S_RCP, <<>>))
       /\ \A p \in {25, 50, 75} :
              Selects(req.subsets, "percentile", p)
              => Contains(result.src, S_pctl \o Str(p))
       /\ \A z \in {S_DJF, S_MAM} :
              Selects(req.subsets, "season", z) => Contains(result.src, z)

\* C9 as claimed: a query that raises leaves locator and handle as they were
C9_ErrorLeavesProvider ==
    [][(IsQuery(result') /\ result'.outcome = "raise")
       => (data' = data /\ _data' = _data)]_vars

\* C10 as claimed: the facet axes after x, y and time in self.axes are the
\* labels get_coverage_domainset appends, in the same order
C10_AxesMatchDomainset ==
    result.outcome = "domainset"
    => SubSeq(axes, 4, Len(axes))
       = SubSeq(result.axisLabels, 4, Len(result.axisLabels))

\* C7: nothing makes a call wait for another: a call that has entered query()
\* and has not returned can always take its next statement, wherever the
\* other call stands
C7_NoSynchronization ==
    \A q \in Queries : pc[q] \notin {"idle", "done"} => ENABLED step(q)

\* C7 witness: a call opened the dataset for its own facet value and then
\* selected from the handle the other call had opened from another locator
C7_Race ==
    \E q \in Queries : \E o \in Queries \ {q} :
        /\ pc[q] = "done"
        /\ topened[q] # None
        /\ topened[o] # None
        /\ tresult[q].src # <<>>
        /\ tresult[q].src # topened[q].src
        /\ tresult[q].src = topened[o].src

====
